---------------------------- MODULE Spec2Model ----------------------------
(***************************************************************************)
(* LightArt autocomplete service (src/main.py) and the image suggestion    *)
(* routine (src/suggestionsPY.py).                                         *)
(*                                                                         *)
(* A text is a sequence of one-character strings.  The program keeps one   *)
(* piece of state across calls, the model handle llm; every other variable *)
(* records the most recent call: what was asked (op), what the model       *)
(* answered (reply), how often the model was invoked during the call       *)
(* (invocations), which parse attempts were made (parses) and what the     *)
(* caller got back (response).                                             *)
(***************************************************************************)
EXTENDS Integers, Sequences, FiniteSets, TLC

VARIABLES llm, op, reply, invocations, parses, response

vars == <<llm, op, reply, invocations, parses, response>>

-----------------------------------------------------------------------------
(* Bounds of the model *)

MaxSentenceLen == 3

MaxContentLen == 2

MaxPad == 1

MaxListLen == 16

-----------------------------------------------------------------------------
(* Python string primitives, computed as str computes them *)

Whitespace == {" ", "\n"}

SeqsUpTo(S, n) == UNION {[1..k -> S] : k \in 0..n}

RECURSIVE LStripChars(_, _)
LStripChars(s, cs) ==
    IF Len(s) > 0 /\ Head(s) \in cs THEN LStripChars(Tail(s), cs) ELSE s

RECURSIVE RStripChars(_, _)
RStripChars(s, cs) ==
    IF Len(s) > 0 /\ s[Len(s)] \in cs
    THEN RStripChars(SubSeq(s, 1, Len(s) - 1), cs)
    ELSE s

\* str.strip(chars)
StripChars(s, cs) == RStripChars(LStripChars(s, cs), cs)

\* str.strip()
Strip(s) == StripChars(s, Whitespace)

\* str.startswith(p)
StartsWith(s, p) == Len(p) <= Len(s) /\ SubSeq(s, 1, Len(p)) = p

\* str.replace(old, new), leftmost non-overlapping occurrences, old non-empty
RECURSIVE Replace(_, _, _)
Replace(s, old, new) ==
    IF Len(s) = 0 THEN <<>>
    ELSE IF StartsWith(s, old)
         THEN new \o Replace(SubSeq(s, Len(old) + 1, Len(s)), old, new)
         ELSE <<Head(s)>> \o Replace(Tail(s), old, new)

-----------------------------------------------------------------------------
(* src/main.py *)

None == "None"

Llama == "Llama"

\* llm = Llama(...) or, when loading raised, llm = None
Handles == {Llama, None}

NoText == <<>>

\* what an HTTP caller receives: body is "detail" (an HTTPException),
\* "completion" (AutocompleteResponse), "health" or "service"; cause is the
\* str(e) a 500 carries
HttpResponse(status, body, detail, cause, completion, full_text) ==
    [status |-> status, body |-> body, detail |-> detail, cause |-> cause,
     model_loaded |-> (body = "health"), completion |-> completion,
     full_text |-> full_text]

HttpError(status, detail, cause) ==
    HttpResponse(status, "detail", detail, cause, NoText, NoText)

\* replies of llm.create_chat_completion: it raises, it returns a response
\* without choices[0].message.content, or it returns one with that content
ChatReplies ==
    {[kind |-> "raise", msg |-> m] : m \in {"out of memory", "llama_decode failed"}}
    \cup {[kind |-> "malformed", msg |-> "'choices'"]}
    \cup {[kind |-> "completion", content |-> c] :
             c \in SeqsUpTo({" ", "b"}, MaxContentLen)}

NoReply == [kind |-> "none"]

Sentences == SeqsUpTo({" ", "a"}, MaxSentenceLen)

\* AutocompleteRequest: a handler is entered with a request whose
\* suggestions list has passed min_length=1
SuggestionLists == {<<"warm amber glow">>, <<"warm amber glow", "cool blue">>}

Requests ==
    {[sentence |-> s, suggestions |-> l] : s \in Sentences, l \in SuggestionLists}

ModelNotLoadedMutant(h) == FALSE

\* llm is None
ModelNotLoaded(h) == h = None

EmptySentenceMutant(sentence) == sentence = NoText

\* not request.sentence.strip()
EmptySentence(sentence) == Strip(sentence) = NoText

GenerateRetryMutant(r) ==
    IF r.kind = "completion"
    THEN [invocations |-> 1, raised |-> FALSE, msg |-> "",
          completion |-> Strip(r.content)]
    ELSE [invocations |-> 2, raised |-> TRUE, msg |-> r.msg, completion |-> NoText]

\* the one create_chat_completion call and the reading of its content:
\* response["choices"][0]["message"]["content"].strip()
Generate(r) ==
    IF r.kind = "completion"
    THEN [invocations |-> 1, raised |-> FALSE, msg |-> "",
          completion |-> Strip(r.content)]
    ELSE [invocations |-> 1, raised |-> TRUE, msg |-> r.msg, completion |-> NoText]

AutocompleteLightart(base_sentence, light_suggestions, r) == Generate(r)

RefineLightart(base_sentence, light_suggestions, r) == Generate(r)

FullTextMutant(sentence, completion) == Strip(completion \o <<" ">> \o sentence)

\* f"{request.sentence} {completion}".strip()
FullText(sentence, completion) == Strip(sentence \o <<" ">> \o completion)

GenerationErrorMutant(detail, g) ==
    HttpResponse(200, "completion", "", "", NoText, NoText)

\* except Exception as e: raise HTTPException(500, detail + str(e))
GenerationError(detail, g) == HttpError(500, detail, g.msg)

CompletedMutant(h, r, sentence, g, detail) ==
    LET resp == IF g.raised
                THEN GenerationError(detail, g)
                ELSE HttpResponse(200, "completion", "", "", g.completion,
                                  FullText(sentence, g.completion))
    IN  [llm |-> IF g.raised THEN None ELSE h, invocations |-> g.invocations,
         reply |-> r, response |-> resp]

\* the try block of a POST handler, after the call of *_lightart; the
\* handler assigns nothing to the module-level llm
Completed(h, r, sentence, g, detail) ==
    LET resp == IF g.raised
                THEN GenerationError(detail, g)
                ELSE HttpResponse(200, "completion", "", "", g.completion,
                                  FullText(sentence, g.completion))
    IN  [llm |-> h, invocations |-> g.invocations, reply |-> r, response |-> resp]

\* a response given without calling the model
Answered(h, resp) ==
    [llm |-> h, invocations |-> 0, reply |-> NoReply, response |-> resp]

\* POST /autocomplete
Autocomplete(h, request, r) ==
    IF ModelNotLoaded(h)
    THEN Answered(h, HttpError(503, "Model not loaded. Please restart the server.", ""))
    ELSE IF EmptySentence(request.sentence)
    THEN Answered(h, HttpError(400, "Sentence cannot be empty", ""))
    ELSE Completed(h, r, request.sentence,
                   AutocompleteLightart(request.sentence, request.suggestions, r),
                   "Error generating autocomplete: ")

\* POST /refine
Refine(h, request, r) ==
    IF ModelNotLoaded(h)
    THEN Answered(h, HttpError(503, "Model not loaded. Please restart the server.", ""))
    ELSE IF EmptySentence(request.sentence)
    THEN Answered(h, HttpError(400, "Sentence cannot be empty", ""))
    ELSE Completed(h, r, request.sentence,
                   RefineLightart(request.sentence, request.suggestions, r),
                   "Error generating refinement: ")

\* GET /health
HealthCheck(h) ==
    IF ModelNotLoaded(h)
    THEN Answered(h, HttpError(503, "Model not loaded. Please check server logs.", ""))
    ELSE Answered(h, HttpResponse(200, "health", "healthy", "", NoText, NoText))

\* GET /
Root(h) ==
    Answered(h, HttpResponse(200, "service", "LightArt Autocomplete API", "",
                             NoText, NoText))


-----------------------------------------------------------------------------
(* src/suggestionsPY.py *)

\* A JSON document is kept as the value it decodes to, every scalar reduced
\* to its JSON type ("str", "num") and a missing key to "absent": the schema
\* looks at keys, types and lengths only.

MainFields ==
    {"movie_style_suggestion", "mood_suggestion", "color_focus_suggestion",
     "other_main_suggestion"}

\* conlist(SuggestionType, min_length=15, max_length=15)
MinLength == 15

MaxLength == 15

AllStr == [f \in MainFields |-> "str"]

Strs(n) == [i \in 1..n |-> "str"]

Document(has_main, main, has_normal, normal, extra) ==
    [has_main |-> has_main, main |-> main, has_normal |-> has_normal,
     normal |-> normal, extra |-> extra]

GoodDocument == Document(TRUE, AllStr, TRUE, Strs(MinLength), FALSE)

ShortDocument == Document(TRUE, AllStr, TRUE, Strs(MinLength - 1), FALSE)

Documents ==
    {Document(TRUE, AllStr, TRUE, Strs(n), FALSE) : n \in 0..MaxListLen}
    \cup {Document(TRUE, AllStr, TRUE, [Strs(n) EXCEPT ![n] = "num"], FALSE) :
             n \in 1..MaxListLen}
    \cup {Document(TRUE, [AllStr EXCEPT ![f] = t], TRUE, Strs(MinLength), FALSE) :
             f \in MainFields, t \in {"absent", "num"}}
    \cup {Document(FALSE, AllStr, TRUE, Strs(MinLength), FALSE),
          Document(TRUE, AllStr, FALSE, <<>>, FALSE),
          Document(TRUE, AllStr, TRUE, Strs(MinLength), TRUE)}

\* MainSuggestions: four required str fields
ValidMain(m) == \A f \in MainFields : m[f] = "str"

ValidNormalMutant(l) == Len(l) <= MaxLength /\ \A i \in 1..Len(l) : l[i] = "str"

\* normal_suggestions: a list of exactly 15 str
ValidNormal(l) ==
    /\ Len(l) >= MinLength
    /\ Len(l) <= MaxLength
    /\ \A i \in 1..Len(l) : l[i] = "str"

NoBundle == [main_suggestions |-> AllStr, normal_suggestions |-> <<>>]

\* CombinedSuggestions.model_validate: extra keys are dropped
ModelValidate(d) ==
    IF d.has_main /\ ValidMain(d.main) /\ d.has_normal /\ ValidNormal(d.normal)
    THEN [ok |-> TRUE,
          bundle |-> [main_suggestions |-> d.main, normal_suggestions |-> d.normal]]
    ELSE [ok |-> FALSE, bundle |-> NoBundle]

\* the backtick character is written "^"
Backtick == "^"

Fence == <<Backtick, Backtick, Backtick>>

JsonTag == <<"j", "s", "o", "n">>

Newline == <<"\n">>

\* In a text, "{" and "}" stand for the opening and the closing part of a
\* JSON document and the letters between them for the content of one of its
\* strings; "x" is prose.
Letters == {"j", "s", "o", "n"}

Pads == SeqsUpTo({" "}, MaxPad)

ModelTexts ==
    {pre \o open \o body \o close :
        pre \in Pads,
        open \in {<<>>, Fence \o Newline, Fence \o JsonTag \o Newline},
        body \in {<<"{", "}">>, <<"{">> \o JsonTag \o <<"}">>, <<"x">>},
        close \in {<<>>, Newline \o Fence}}

\* replies of gemini.invoke: it raises, or it returns a message whose
\* content is a str (the text, denoting doc where it is JSON) or is not one
VisionReplies ==
    {[kind |-> "raise", text |-> NoText, doc |-> GoodDocument]}
    \cup {[kind |-> "nonstr", text |-> <<"x">>, doc |-> GoodDocument]}
    \cup {[kind |-> "text", text |-> t, doc |-> d] :
             t \in ModelTexts, d \in {GoodDocument, ShortDocument}}
    \cup {[kind |-> "text", text |-> <<"{", "}">>, doc |-> d] : d \in Documents}

\* json.loads(raw)
JsonLoads(text, d) ==
    /\ Len(text) >= 2
    /\ text[1] = "{"
    /\ text[Len(text)] = "}"
    /\ \A i \in 2..(Len(text) - 1) : text[i] \in Letters

\* if raw.startswith(Fence):
\*     raw = raw.strip().strip(Backtick).replace("json", "").strip()
Normalize(raw) ==
    IF StartsWith(raw, Fence)
    THEN Strip(Replace(StripChars(Strip(raw), {Backtick}), JsonTag, <<>>))
    ELSE raw

\* parser.parse(raw): the library decoder yields a bundle only from a text
\* that decodes to a document satisfying CombinedSuggestions, and raises
\* otherwise; rejects says that it raises on a text json.loads would take
PrimaryParse(text, d, rejects) ==
    IF ~rejects /\ JsonLoads(text, d)
    THEN ModelValidate(d)
    ELSE [ok |-> FALSE, bundle |-> NoBundle]

\* CombinedSuggestions.model_validate(json.loads(raw))
FallbackParse(text, d) ==
    IF JsonLoads(text, d)
    THEN ModelValidate(d)
    ELSE [ok |-> FALSE, bundle |-> NoBundle]

Attempt(parser, text, ok) == [parser |-> parser, text |-> text, ok |-> ok]

Returned(b) == [outcome |-> "bundle", bundle |-> b, error |-> ""]

Raised(e) == [outcome |-> "raised", bundle |-> NoBundle, error |-> e]

ParseAlwaysFallbackMutant(text, d, rejects) ==
    LET p == PrimaryParse(text, d, rejects)
        f == FallbackParse(text, d)
    IN  [parses |-> <<Attempt("primary", text, p.ok), Attempt("fallback", text, f.ok)>>,
         response |-> IF f.ok THEN Returned(f.bundle) ELSE Raised("ValidationError")]

\* try: return parser.parse(raw)
\* except Exception: return CombinedSuggestions.model_validate(json.loads(raw))
Parse(text, d, rejects) ==
    LET p == PrimaryParse(text, d, rejects)
        f == FallbackParse(text, d)
    IN  IF p.ok
        THEN [parses |-> <<Attempt("primary", text, TRUE)>>,
              response |-> Returned(p.bundle)]
        ELSE [parses |-> <<Attempt("primary", text, FALSE),
                           Attempt("fallback", text, f.ok)>>,
              response |-> IF f.ok THEN Returned(f.bundle)
                           ELSE Raised("ValidationError")]

\* raw = raw.strip() if isinstance(raw, str) else str(resp).strip()
Raw(r) == Strip(r.text)

\* gemini_user_style_suggestions(image); encodable: pil_to_data_uri returns
GeminiUserStyleSuggestions(encodable, r, rejects) ==
    IF ~encodable
    THEN [invocations |-> 0, reply |-> NoReply, parses |-> <<>>,
          response |-> Raised("encode")]
    ELSE IF r.kind = "raise"
    THEN [invocations |-> 1, reply |-> r, parses |-> <<>>,
          response |-> Raised("invoke")]
    ELSE LET out == Parse(Normalize(Raw(r)), r.doc, rejects)
         IN  [invocations |-> 1, reply |-> r, parses |-> out.parses,
              response |-> out.response]

-----------------------------------------------------------------------------
(* The calls.  The handlers are coroutines that never await and the image   *)
(* routine is a plain function: a call runs to completion before the next  *)
(* one starts, so each call is one step.                                   *)

NoResponse == [outcome |-> "none"]

Init ==
    /\ llm \in Handles
    /\ op = [kind |-> "start"]
    /\ reply = NoReply
    /\ invocations = 0
    /\ parses = <<>>
    /\ response = NoResponse

Http(kind, request, out) ==
    /\ llm' = out.llm
    /\ op' = [kind |-> kind, request |-> request]
    /\ reply' = out.reply
    /\ invocations' = out.invocations
    /\ parses' = <<>>
    /\ response' = out.response

NoRequest == [sentence |-> NoText, suggestions |-> <<>>]

GetRoot == Http("root", NoRequest, Root(llm))

GetHealth == Http("health", NoRequest, HealthCheck(llm))

PostAutocomplete ==
    \E request \in Requests, r \in ChatReplies :
        Http("autocomplete", request, Autocomplete(llm, request, r))

PostRefine ==
    \E request \in Requests, r \in ChatReplies :
        Http("refine", request, Refine(llm, request, r))

Suggest ==
    \E encodable \in BOOLEAN, r \in VisionReplies, rejects \in BOOLEAN :
        LET out == GeminiUserStyleSuggestions(encodable, r, rejects)
        IN  /\ op' = [kind |-> "suggestions", encodable |-> encodable]
            /\ reply' = out.reply
            /\ invocations' = out.invocations
            /\ parses' = out.parses
            /\ response' = out.response
            /\ UNCHANGED llm

Next == GetRoot \/ GetHealth \/ PostAutocomplete \/ PostRefine \/ Suggest

Spec == Init /\ [][Next]_vars

-----------------------------------------------------------------------------
(* Properties *)

IsPost == op.kind \in {"autocomplete", "refine"}

IsSuggest == op.kind = "suggestions"

Blank(sentence) == \A i \in 1..Len(sentence) : sentence[i] \in Whitespace

Trim(s) ==
    LET first == {i \in 1..Len(s) : s[i] \notin Whitespace}
    IN  IF first = {} THEN <<>>
        ELSE SubSeq(s, CHOOSE i \in first : \A j \in first : i <= j,
                       CHOOSE i \in first : \A j \in first : j <= i)

\* C1 as stated: a POST to /autocomplete or /refine whose sentence is empty
\* after trimming is answered 400 and the model is not invoked, whatever the
\* suggestions list and the state of the model handle.
C1_AsStated ==
    (IsPost /\ Blank(op.request.sentence))
        => (response.status = 400 /\ invocations = 0)

\* C1 as amended: such a POST never invokes the model, whatever the
\* suggestions list; it is answered 400 when the handle is loaded and 503
\* when the handle is uninitialized.
C1_EmptySentence ==
    (IsPost /\ Blank(op.request.sentence))
        => /\ invocations = 0
           /\ response.body = "detail"
           /\ response.status = IF llm = None THEN 503 ELSE 400

C1_Witness ==
    /\ IsPost
    /\ op.request.sentence = <<" ", " ">>
    /\ response.status = 400
    /\ llm = Llama

\* C2: with the handle uninitialized, every call of /autocomplete, /refine
\* and /health is answered 503, for every request body, without invoking
\* the model; with the handle loaded /health answers 200 with model_loaded
\* true.
C2_ModelUnavailable ==
    /\ (llm = None /\ (IsPost \/ op.kind = "health"))
          => /\ response.status = 503
             /\ response.body = "detail"
             /\ invocations = 0
    /\ (llm = Llama /\ op.kind = "health")
          => (response.status = 200 /\ response.model_loaded)

C2_Witness ==
    /\ llm = None
    /\ op.kind = "refine"
    /\ op.request.sentence = <<"a">>
    /\ response.status = 503

\* C3: in a successful /autocomplete or /refine response with sentence s and
\* completion c, full_text is Trim(s), one space, c when c is non-empty, and
\* Trim(s) when c is empty.
C3_FullText ==
    (IsPost /\ response.status = 200)
        => response.full_text =
              IF response.completion = <<>>
              THEN Trim(op.request.sentence)
              ELSE Trim(op.request.sentence) \o <<" ">> \o response.completion

\* C4: in a successful /autocomplete or /refine response, full_text starts
\* with the trimmed sentence.
C4_StartsWithSentence ==
    (IsPost /\ response.status = 200)
        => /\ Trim(op.request.sentence) # <<>>
           /\ StartsWith(response.full_text, Trim(op.request.sentence))

C4_Witness ==
    /\ IsPost
    /\ response.status = 200
    /\ op.request.sentence = <<" ", "a", " ">>
    /\ response.completion = <<"b">>

\* the model output has a main field missing or a list of another length
Misshapen(d) ==
    \/ ~d.has_main
    \/ \E f \in MainFields : d.main[f] = "absent"
    \/ ~d.has_normal
    \/ Len(d.normal) # 15

\* C5: a bundle returned by gemini_user_style_suggestions, by the primary
\* parse or by the fallback, has the 4 main fields and exactly 15 normal
\* suggestions, all strings (4 + 15 = 19); model output with a main field
\* missing or a list of another length makes the call raise.
C5_Cardinality ==
    IsSuggest =>
        /\ response.outcome = "bundle" =>
              /\ DOMAIN response.bundle.main_suggestions = MainFields
              /\ \A f \in MainFields : response.bundle.main_suggestions[f] = "str"
              /\ Len(response.bundle.normal_suggestions) = 15
              /\ \A i \in 1..15 : response.bundle.normal_suggestions[i] = "str"
              /\ 4 + Len(response.bundle.normal_suggestions) = 19
              /\ parses[Len(parses)].ok
        /\ (reply.kind = "text" /\ Misshapen(reply.doc)) => response.outcome = "raised"

C5_Witness ==
    /\ IsSuggest
    /\ response.outcome = "bundle"
    /\ Len(parses) = 2
    /\ parses[2].parser = "fallback"

\* the text between an opening fence, with its optional json tag, and the
\* closing fence
Enclosed(raw) ==
    LET t == Trim(raw)
        a == SubSeq(t, Len(Fence) + 1, Len(t))
        b == IF StartsWith(a, JsonTag) THEN SubSeq(a, Len(JsonTag) + 1, Len(a)) ELSE a
        closed == Len(b) >= Len(Fence) /\ SubSeq(b, Len(b) - Len(Fence) + 1, Len(b)) = Fence
    IN  Trim(IF closed THEN SubSeq(b, 1, Len(b) - Len(Fence)) ELSE b)

\* C6: the text handed to the validator is, for a fenced raw text, the
\* enclosed content, trimmed and otherwise unchanged, and for a raw text that
\* is not fenced the raw text itself (up to the surrounding whitespace).
C6_Normalized ==
    (IsSuggest /\ Len(parses) > 0 /\ reply.kind = "text")
        => parses[1].text =
              IF StartsWith(Trim(reply.text), Fence)
              THEN Enclosed(reply.text)
              ELSE Trim(reply.text)

BothFailed == Len(parses) = 2 /\ ~parses[1].ok /\ ~parses[2].ok

ParseDiscipline ==
    /\ Len(parses) <= 2
    /\ Len(parses) >= 1 => parses[1].parser = "primary"
    /\ Len(parses) = 2 <=> (Len(parses) >= 1 /\ ~parses[1].ok)
    /\ Len(parses) = 2 =>
          (parses[2].parser = "fallback" /\ parses[2].text = parses[1].text)
    /\ invocations <= 1

\* C7 as stated: the fallback is attempted exactly when the primary parse
\* failed, on the same text; the call raises exactly when both fail; there
\* is no third parse and no second model invocation.
C7_AsStated ==
    IsSuggest =>
        /\ ParseDiscipline
        /\ response.outcome = "raised" <=> BothFailed

\* C7 as amended: the same, the call raising exactly when both parses fail
\* once the model invocation has returned a reply; the call also raises,
\* with no parse attempted, when the image cannot be encoded or the model
\* invocation itself raises.
C7_Fallback ==
    IsSuggest =>
        /\ ParseDiscipline
        /\ Len(parses) >= 1 <=> (invocations = 1 /\ reply.kind # "raise")
        /\ Len(parses) >= 1 => (response.outcome = "raised" <=> BothFailed)
        /\ Len(parses) = 0 => response.outcome = "raised"

C7_Witness ==
    /\ IsSuggest
    /\ BothFailed
    /\ response.outcome = "raised"
    /\ reply.doc = ShortDocument

GenerationFailed == reply.kind \in {"raise", "malformed"}

\* C8: with the handle loaded and a sentence that is not blank, a failure of
\* the model call or of reading its reply is answered 500 with the
\* underlying message and without a completion; 400 is given only for a
\* blank sentence, 503 only for an uninitialized handle and 500 only for a
\* failure during generation.
C8_GenerationFailure ==
    IsPost =>
        /\ (llm = Llama /\ ~Blank(op.request.sentence) /\ GenerationFailed)
              => /\ response.status = 500
                 /\ response.cause = reply.msg
                 /\ response.detail \in {"Error generating autocomplete: ",
                                         "Error generating refinement: "}
                 /\ response.body = "detail"
                 /\ response.completion = <<>> /\ response.full_text = <<>>
        /\ response.status = 400 => Blank(op.request.sentence)
        /\ response.status = 503 => llm = None
        /\ response.status = 500 => (GenerationFailed /\ invocations >= 1)
        /\ (response.status = 400 \/ response.status = 503) => invocations = 0

C8_Witness ==
    /\ op.kind = "autocomplete"
    /\ response.status = 500
    /\ reply.kind = "malformed"
    /\ response.cause = "'choices'"

\* C9: a request to /autocomplete or /refine and a call of
\* gemini_user_style_suggestions invokes the model at most once, and exactly
\* once when it gets past what precedes the model call (a loaded handle and
\* a sentence that is not blank; an image that encodes),
\* whether the model call and the parse succeed or fail.
C9_NoRetry ==
    /\ invocations <= 1
    /\ (IsPost /\ llm = Llama /\ ~Blank(op.request.sentence))
          => (invocations = 1 /\ reply.kind # "none")
    /\ (IsSuggest /\ op.encodable) => (invocations = 1 /\ reply.kind # "none")
    /\ (IsSuggest /\ ~op.encodable) => invocations = 0

C9_Witness ==
    /\ op.kind = "refine"
    /\ reply.kind = "raise"
    /\ invocations = 1
    /\ response.status = 500

SameHttpCall ==
    /\ op.kind \in {"root", "health", "autocomplete", "refine"}
    /\ op'.kind = op.kind
    /\ op'.request = op.request
    /\ reply'.kind = reply.kind
    /\ reply' = reply

\* C10: no call changes the model handle, and the response to a request is
\* decided by its body, the handle and the model's reply: a request repeated
\* with the same reply gets the same response.
C10_Stateless ==
    [][/\ llm' = llm
       /\ SameHttpCall => (response' = response /\ invocations' = invocations)]_vars

C10_Witness ==
    /\ IsPost
    /\ response.status = 500
    /\ llm = Llama

=============================================================================
